---- MODULE Spec2Model ----
(***************************************************************************)
(* State-machine model of DeepResearchTools                                *)
(* (src/sec_edgar_mcp/tools/deep_research.py): the object cache that       *)
(* search fills and fetch reads, the two handlers, and the data provider   *)
(* they call.                                                              *)
(*                                                                         *)
(* Strings are sequences of one-character strings, so that lower(),        *)
(* split(), substring tests and the hashing of "type:identifier" are       *)
(* computed rather than assumed.  An optional value (None or v) is the     *)
(* sequence <<>> or <<v>>.                                                 *)
(***************************************************************************)
EXTENDS Integers, Sequences, FiniteSets, TLC

(***************************************************************************)
(* Bounds of the model.                                                    *)
(***************************************************************************)
MaxTopK == 2
MaxBatch == 2
MaxDays == 1

(***************************************************************************)
(* Strings.                                                                *)
(***************************************************************************)
None == <<>>
Some(v) == <<v>>

\* A function given by a rule, with its values computed once.
Table(f) == f @@ [x \in {} |-> x]

Alphabet ==
  <<"a", "b", "c", "d", "e", "f", "g", "h", "i", "j", "k", "l", "m",
    "n", "o", "p", "q", "r", "s", "t", "u", "v", "w", "x", "y", "z",
    "0", "1", "2", "3", "4", "5", "6", "7", "8", "9", ":", "-", " ",
    "A", "B", "C", "D", "I", "K", "Q">>

\* The byte of a character as raw_id.encode() yields it (its place in Alphabet).
Code(ch) == CHOOSE i \in 1..Len(Alphabet) : Alphabet[i] = ch

\* str.lower() on one character.
LowerChar(ch) ==
  CASE ch = "A" -> "a"
    [] ch = "B" -> "b"
    [] ch = "C" -> "c"
    [] ch = "D" -> "d"
    [] ch = "I" -> "i"
    [] ch = "K" -> "k"
    [] ch = "Q" -> "q"
    [] OTHER -> ch

\* str.lower()
Lower(s) == [i \in 1..Len(s) |-> LowerChar(s[i])]

\* str.split(): the maximal runs of non-blank characters, in order.
RECURSIVE SplitFrom(_, _, _)
SplitFrom(s, i, cur) ==
  IF i > Len(s)
    THEN IF cur = <<>> THEN <<>> ELSE <<cur>>
    ELSE IF s[i] = " "
      THEN (IF cur = <<>> THEN <<>> ELSE <<cur>>) \o SplitFrom(s, i + 1, <<>>)
      ELSE SplitFrom(s, i + 1, Append(cur, s[i]))

Split(s) == SplitFrom(s, 1, <<>>)

\* `term in text` on strings: term occurs as a contiguous substring.
Contains(text, term) ==
  \E i \in 0..(Len(text) - Len(term)) :
    \A j \in 1..Len(term) : text[i + j] = term[j]

\* " ".join(list)
RECURSIVE Join(_)
Join(list) ==
  IF list = <<>> THEN <<>>
  ELSE IF Len(list) = 1 THEN list[1]
  ELSE list[1] \o <<" ">> \o Join(Tail(list))

\* str.replace("-", "")
RECURSIVE StripDashes(_)
StripDashes(s) ==
  IF s = <<>> THEN <<>>
  ELSE (IF Head(s) = "-" THEN <<>> ELSE <<Head(s)>>) \o StripDashes(Tail(s))

CompanyStr == <<"c", "o", "m", "p", "a", "n", "y">>
FilingStr == <<"f", "i", "l", "i", "n", "g">>

(***************************************************************************)
(* _generate_object_id: md5 of "type:identifier", cut to 16 hex digits.    *)
(* The digest is modelled by a polynomial hash of the encoded bytes and    *)
(* the cut by reduction to TokenSpace values: a deterministic function of  *)
(* the pair with a finite range, in which distinct pairs can collide.      *)
(***************************************************************************)
TokenSpace == 64
HashBase == 31

RECURSIVE Digest(_, _)
Digest(bytes, h) ==
  IF bytes = <<>> THEN h
  ELSE Digest(Tail(bytes), (h * HashBase + Code(Head(bytes))) % TokenSpace)

GenerateObjectId(data_type, identifier) ==
  Digest(data_type \o <<":">> \o identifier, 0)

(***************************************************************************)
(* The data provider (EdgarClient and the edgar library) is outside the    *)
(* program: what it answers to a call is chosen among the records below.   *)
(* The first company's record exists in two versions: the one searches     *)
(* list and, by the time of a fetch, possibly a renamed one without the    *)
(* tickers attribute.  The second company has an empty ticker list.  A     *)
(* filing can have left the listing when fetch asks for it.                *)
(***************************************************************************)
CIK1 == <<"1">>
CIK2 == <<"2">>
CIKs == {CIK1, CIK2}

\* tickers: None when the object has no such attribute, else Some(list).
CompanyVersions(cik) ==
  IF cik = CIK1
    THEN << [cik |-> CIK1, name |-> <<"A", "b">>, tickers |-> Some(<< <<"A", "B">> >>)],
            [cik |-> CIK1, name |-> <<"A", "b", " ", "C", "o">>, tickers |-> None] >>
    ELSE << [cik |-> CIK2, name |-> <<"C", "d">>, tickers |-> Some(<<>>)] >>

CompanyRecords ==
  UNION {{CompanyVersions(cik)[v] : v \in 1..Len(CompanyVersions(cik))} : cik \in CIKs}

\* filing_date: a naive datetime, or an ISO-8601 string with or without a
\* trailing Z; day is the instant it denotes, counted from Now.
AllFilings ==
  << [accession_number |-> <<"1", "-", "1">>, cik |-> CIK1, company |-> <<"A", "b">>,
      form |-> <<"1", "0", "-", "K">>,
      filing_date |-> [kind |-> "datetime", day |-> -1, z |-> FALSE]],
     [accession_number |-> <<"1", "-", "2">>, cik |-> CIK1, company |-> <<"A", "b">>,
      form |-> <<"1", "0", "-", "Q">>,
      filing_date |-> [kind |-> "str", day |-> -2, z |-> FALSE]],
     [accession_number |-> <<"2", "-", "1">>, cik |-> CIK2, company |-> <<"C", "d">>,
      form |-> <<"8", "-", "K">>,
      filing_date |-> [kind |-> "str", day |-> 0, z |-> TRUE]] >>

Accessions == {AllFilings[i].accession_number : i \in 1..Len(AllFilings)}

Queries ==
  { <<"a", "b", " ", "1", "0", "-", "K">>,
    <<"2">> }

\* data_types: None, a list, or a value that is no container.
DataTypesInputs ==
  { [kind |-> "none", list |-> <<>>],
    [kind |-> "list", list |-> <<"filings">>],
    [kind |-> "bad", list |-> <<>>] }

DateRangeInputs == {None} \cup {Some(d) : d \in 1..MaxDays}

VARIABLES
  object_cache,   \* self._object_cache: token -> entry
  seen,           \* history: the entity key and token of every candidate searches kept
  call,           \* the last call: its arguments, the provider's answers, all_results
  response        \* the last call's return value

vars == <<object_cache, seen, call, response>>

(***************************************************************************)
(* Provider operations.                                                    *)
(***************************************************************************)
\* company.get_filings()
CompanyFilings(cik) == SelectSeq(AllFilings, LAMBDA f : f.cik = cik)

\* edgar.get_filings(count=n)
RecentFilings(n) ==
  IF Len(AllFilings) <= n THEN AllFilings ELSE SubSeq(AllFilings, 1, n)

\* client.get_company(identifier) finds a company when the identifier is its
\* CIK or one of its tickers.
CompanyMatches(identifier) ==
  { cik \in CIKs :
      \E v \in 1..Len(CompanyVersions(cik)) :
        LET c == CompanyVersions(cik)[v] IN
          \/ c.cik = identifier
          \/ /\ c.tickers # None
             /\ \E i \in 1..Len(c.tickers[1]) : Lower(c.tickers[1][i]) = Lower(identifier) }

\* client.search_companies(query, limit): any listing of at most limit
\* companies, each once.
ListedCompanies == {CompanyVersions(cik)[1] : cik \in CIKs}

AllCompanyListings ==
  { s \in UNION {[1..n -> ListedCompanies] : n \in 0..Cardinality(CIKs)} :
      \A i, j \in 1..Len(s) : i # j => s[i].cik # s[j].cik }

CompanyListings(limit) == {s \in AllCompanyListings : Len(s) <= limit}

Init ==
  /\ object_cache = <<>>
  /\ seen = {}
  /\ call = [op |-> "init"]
  /\ response = [op |-> "init"]

(***************************************************************************)
(* search                                                                  *)
(***************************************************************************)
TypeChars(data_type) == IF data_type = "company" THEN CompanyStr ELSE FilingStr

\* A relevance score is the exact fraction num/den in lowest terms.  For the
\* queries of search in this model (one or two terms) the quotients and sums
\* are 0, 1/2, 1 and 3/2, which the doubles of the program represent exactly;
\* the rounding of other quotients is modelled under ScoreSpec.
RECURSIVE Gcd(_, _)
Gcd(a, b) == IF b = 0 THEN a ELSE Gcd(b, a % b)

Fraction(num, den) == [num |-> num \div Gcd(num, den), den |-> den \div Gcd(num, den)]

ScoreLess(a, b) == a.num * b.den < b.num * a.den

TermCount(query) == LET n == Len(Split(Lower(query))) IN IF n > 1 THEN n ELSE 1

\* _score_relevance(query, text)
ScoreRelevance(query, text) ==
  LET query_terms == Split(Lower(query))
      text_lower == Lower(text)
      matches == Cardinality({i \in 1..Len(query_terms) : Contains(text_lower, query_terms[i])})
  IN Fraction(matches, TermCount(query))

\* relevance += 0.5
Boost(score) == Fraction(2 * score.num + score.den, 2 * score.den)

\* getattr(company, 'tickers', [])
TickersOrEmpty(company) == IF company.tickers = None THEN <<>> ELSE company.tickers[1]

\* getattr(company, 'tickers', [None])[0] if hasattr(company, 'tickers') else None
\* raises IndexError on an empty ticker list.
TickerRaises(company) == company.tickers # None /\ company.tickers[1] = <<>>
FirstTicker(company) ==
  IF company.tickers = None THEN None ELSE Some(company.tickers[1][1])

CompanySearchText(company) ==
  company.name \o <<" ">> \o Join(TickersOrEmpty(company))
    \o <<" ", "C", "I", "K", ":">> \o company.cik

\* Faulty variant of CompanyResult: the token is derived from the query too.
CompanyResultPerQuery(query, company) ==
  [object_id |-> GenerateObjectId(TypeChars("company"), company.cik \o <<":">> \o query),
   type |-> "company",
   title |-> company.name,
   cik |-> company.cik,
   ticker |-> FirstTicker(company),
   description |-> <<"SEC registered company - CIK: ", company.cik>>,
   relevance_score |-> ScoreRelevance(query, CompanySearchText(company))]

CompanyResult(query, company) ==
  [object_id |-> GenerateObjectId(TypeChars("company"), company.cik),
   type |-> "company",
   title |-> company.name,
   cik |-> company.cik,
   ticker |-> FirstTicker(company),
   description |-> <<"SEC registered company - CIK: ", company.cik>>,
   relevance_score |-> ScoreRelevance(query, CompanySearchText(company))]

\* CompanyResult on every query and company record of the model, computed once.
CompanyResultOf ==
  Table([query \in Queries |->
           Table([company \in {c \in CompanyRecords : ~TickerRaises(c)} |->
                    CompanyResult(query, company)])])

\* Faulty variant of CompanyEntry: the entry is stored under the name of the
\* data type searched.
CompanyEntryAsDataType(result) == [type |-> "companies", cik |-> result.cik, data |-> result]

CompanyEntry(result) == [type |-> "company", cik |-> result.cik, data |-> result]

\* Faulty variant of Put: the cache keeps the latest entry only.
PutEvicting(cache, obj_id, entry) == [t \in {obj_id} |-> entry]

\* self._object_cache[obj_id] = entry
Put(cache, obj_id, entry) ==
  [t \in DOMAIN cache \cup {obj_id} |-> IF t = obj_id THEN entry ELSE cache[t]]

\* The loop over the companies found: st is [cache, results, raised]; an
\* exception ends the loop with what was done before it.
RECURSIVE CompanyLoop(_, _, _)
CompanyLoop(query, companies, st) ==
  IF companies = <<>> THEN st
  ELSE LET company == Head(companies) IN
    IF TickerRaises(company) THEN [st EXCEPT !.raised = TRUE]
    ELSE LET result == CompanyResultOf[query][company] IN
      CompanyLoop(query, Tail(companies),
                  [cache |-> Put(st.cache, result.object_id, CompanyEntry(result)),
                   results |-> Append(st.results, result),
                   raised |-> FALSE])

\* datetime.fromisoformat(s.replace('Z', '+00:00')) for a string, the value
\* itself for a datetime: [day, aware].
ParsedDate(filing_date) ==
  IF filing_date.kind = "str"
    THEN [day |-> filing_date.day, aware |-> filing_date.z]
    ELSE [day |-> filing_date.day, aware |-> FALSE]

\* filing_date < cutoff_date raises TypeError for an aware datetime against
\* the naive cutoff.
CompareRaises(filing_date) == ParsedDate(filing_date).aware

\* Faulty variant of OlderThan: no date is before the cutoff.
NeverOlder(filing_date, cutoff) == FALSE

OlderThan(filing_date, cutoff) == ParsedDate(filing_date).day < cutoff

\* isoformat() of a datetime, str() of a string: the text [iso, z].
DateText(filing_date) ==
  IF filing_date.kind = "datetime"
    THEN [iso |-> filing_date.day, z |-> FALSE]
    ELSE [iso |-> filing_date.day, z |-> filing_date.z]

FilingSearchText(filing) ==
  filing.company \o <<" ">> \o filing.form \o <<" ">> \o filing.accession_number

FilingScore(query, filing) ==
  LET relevance == ScoreRelevance(query, FilingSearchText(filing)) IN
    IF Contains(Lower(query), Lower(filing.form))
      THEN Boost(relevance) ELSE relevance

\* Faulty variant of FilingResult: the token is derived from the query too.
FilingResultPerQuery(query, filing) ==
  [object_id |-> GenerateObjectId(TypeChars("filing"),
                                  filing.accession_number \o <<":">> \o query),
   type |-> "filing",
   title |-> <<filing.company, " - ", filing.form>>,
   form_type |-> filing.form,
   company |-> filing.company,
   cik |-> filing.cik,
   accession_number |-> filing.accession_number,
   filing_date |-> DateText(filing.filing_date),
   description |-> <<filing.form, " filing from ", filing.company>>,
   relevance_score |-> FilingScore(query, filing)]

FilingResult(query, filing) ==
  [object_id |-> GenerateObjectId(TypeChars("filing"), filing.accession_number),
   type |-> "filing",
   title |-> <<filing.company, " - ", filing.form>>,
   form_type |-> filing.form,
   company |-> filing.company,
   cik |-> filing.cik,
   accession_number |-> filing.accession_number,
   filing_date |-> DateText(filing.filing_date),
   description |-> <<filing.form, " filing from ", filing.company>>,
   relevance_score |-> FilingScore(query, filing)]

\* FilingResult on every query and filing of the model, computed once.
FilingResultOf ==
  Table([query \in Queries |->
           Table([filing \in {AllFilings[i] : i \in 1..Len(AllFilings)} |->
                    FilingResult(query, filing)])])

FilingEntry(result) ==
  [type |-> "filing", cik |-> result.cik,
   accession_number |-> result.accession_number, data |-> result]

\* if date_range_days: ... if filing_date < cutoff_date: continue
DateFilterOn(date_range_days) == date_range_days # None /\ date_range_days[1] # 0
Now == 0
Cutoff(date_range_days) == Now - date_range_days[1]

\* The loop over the filings: filing_count results at most top_k * 2.
RECURSIVE FilingLoop(_, _, _, _, _, _)
FilingLoop(query, top_k, date_range_days, filings, filing_count, st) ==
  IF filings = <<>> \/ filing_count >= top_k * 2 THEN st
  ELSE LET filing == Head(filings) IN
    IF DateFilterOn(date_range_days) /\ CompareRaises(filing.filing_date)
      THEN [st EXCEPT !.raised = TRUE]
    ELSE IF DateFilterOn(date_range_days)
            /\ OlderThan(filing.filing_date, Cutoff(date_range_days))
      THEN FilingLoop(query, top_k, date_range_days, Tail(filings), filing_count, st)
    ELSE LET result == FilingResultOf[query][filing] IN
      FilingLoop(query, top_k, date_range_days, Tail(filings), filing_count + 1,
                 [cache |-> Put(st.cache, result.object_id, FilingEntry(result)),
                  results |-> Append(st.results, result),
                  raised |-> FALSE])

\* Faulty variant of InsertDesc: an element goes before those of equal score.
RECURSIVE InsertDescUnstable(_, _)
InsertDescUnstable(sorted, x) ==
  IF sorted = <<>> THEN <<x>>
  ELSE IF ScoreLess(x.relevance_score, Head(sorted).relevance_score)
    THEN <<Head(sorted)>> \o InsertDescUnstable(Tail(sorted), x)
    ELSE <<x>> \o sorted

\* all_results.sort(key=relevance_score, reverse=True): a stable sort, equal
\* scores keep their order.
RECURSIVE InsertDesc(_, _)
InsertDesc(sorted, x) ==
  IF sorted = <<>> THEN <<x>>
  ELSE IF ScoreLess(Head(sorted).relevance_score, x.relevance_score)
    THEN <<x>> \o sorted
    ELSE <<Head(sorted)>> \o InsertDesc(Tail(sorted), x)

RECURSIVE SortFrom(_, _)
SortFrom(sorted, rest) ==
  IF rest = <<>> THEN sorted ELSE SortFrom(InsertDesc(sorted, Head(rest)), Tail(rest))

SortByRelevance(results) == SortFrom(<<>>, results)

\* all_results[:top_k]
TopResults(sorted, top_k) ==
  IF Len(sorted) <= top_k THEN sorted ELSE SubSeq(sorted, 1, top_k)

InList(name, list) == \E i \in 1..Len(list) : list[i] = name

\* The company sub-search (lines 68-100) from state st.
CompanySearch(query, top_k, found, st) ==
  IF found.raises THEN [st EXCEPT !.raised = TRUE]
  ELSE CompanyLoop(query, found.listing, st)

\* The filing sub-search (lines 103-172) from state st: target is the
\* company get_company(query) returned (None when it raised).
FilingSearch(query, top_k, date_range_days, target, listing_raises, st) ==
  IF listing_raises THEN [st EXCEPT !.raised = TRUE]
  ELSE LET filings == IF target # None THEN CompanyFilings(target[1])
                      ELSE RecentFilings(top_k * 3)
       IN FilingLoop(query, top_k, date_range_days, filings, 0, st)

SearchResponse(query, data_types, top_k, all_results) ==
  LET top_results == TopResults(SortByRelevance(all_results), top_k) IN
    [op |-> "search",
     success |-> TRUE,
     query |-> query,
     results |-> top_results,
     total_found |-> Len(all_results),
     returned |-> Len(top_results),
     data_types_searched |-> data_types,
     message |-> <<"Found ", Len(top_results), " relevant results for ", query>>]

SearchFailure(query) ==
  [op |-> "search", success |-> FALSE, error |-> "Search failed", query |-> query]

DefaultDataTypes == <<"companies", "filings">>

\* The (entity type, natural key) pair of a search result or cache entry.
EntityKey(r) ==
  IF r.type = "company" THEN <<"company", r.cik>> ELSE <<"filing", r.accession_number>>

KeysOf(results) == {EntityKey(results[i]) : i \in 1..Len(results)}

\* What a search adds to the history: each candidate's entity and its token.
Registered(results) ==
  {[key |-> EntityKey(results[i]), object_id |-> results[i].object_id] :
     i \in 1..Len(results)}

\* Faulty variant of Escapes: a sub-search's exception leaves search too.
EscapesSubSearch(data_types_arg, company_raised, filing_raised) ==
  data_types_arg.kind = "bad" \/ company_raised \/ filing_raised

\* The exceptions that leave search through the outer handler (line 188):
\* those of the two sub-searches are caught inside it (lines 98, 170), the
\* membership test on a data_types that is no container is not.
Escapes(data_types_arg, company_raised, filing_raised) == data_types_arg.kind = "bad"

\* One call of search.  Besides the program's state and response, the step
\* records in call what the call was given (args, found), the candidates it
\* kept (all_results), which sub-search raised, and whether it kept candidates
\* without adding a token to the cache (repeated).
Search(query, data_types_arg, top_k, date_range_days, found, target, listing_raises) ==
  LET args == [query |-> query, data_types |-> data_types_arg, top_k |-> top_k,
               date_range_days |-> date_range_days]
      data_types == IF data_types_arg.kind = "none" THEN DefaultDataTypes
                    ELSE data_types_arg.list
      st0 == [cache |-> object_cache, results |-> <<>>, raised |-> FALSE]
      st1 == IF InList("companies", data_types)
               THEN CompanySearch(query, top_k, found, st0) ELSE st0
      st2 == IF InList("filings", data_types)
               THEN FilingSearch(query, top_k, date_range_days, target, listing_raises,
                                 [st1 EXCEPT !.raised = FALSE])
               ELSE [st1 EXCEPT !.raised = FALSE]
  IN
  IF data_types_arg.kind = "bad"
    THEN /\ response' = SearchFailure(query)
         /\ call' = [op |-> "search", args |-> args,
                     found |-> [raises |-> FALSE, listing |-> <<>>],
                     all_results |-> <<>>,
                     company_raised |-> FALSE, filing_raised |-> FALSE, repeated |-> FALSE]
         /\ UNCHANGED <<object_cache, seen>>
    ELSE /\ object_cache' = st2.cache
         /\ seen' = seen \cup Registered(st2.results)
         /\ response' = IF Escapes(data_types_arg, st1.raised, st2.raised)
                          THEN SearchFailure(query)
                          ELSE SearchResponse(query, data_types, top_k, st2.results)
         /\ call' = [op |-> "search", args |-> args, found |-> found,
                     all_results |-> st2.results,
                     company_raised |-> st1.raised, filing_raised |-> st2.raised,
                     repeated |-> st2.results # <<>> /\ DOMAIN st2.cache = DOMAIN object_cache]

\* get_company(query) in search: the company found, None when it raised.
Target ==
  Table([query \in Queries |->
           IF CompanyMatches(query) = {} THEN None
           ELSE Some(CHOOSE cik \in CompanyMatches(query) : TRUE)])

Raised == [raises |-> TRUE, listing |-> <<>>]

\* search_companies' outcomes, when the company sub-search runs.
FoundOutcomes(data_types_arg, top_k) ==
  IF data_types_arg.kind = "none"
    THEN {Raised} \cup {[raises |-> FALSE, listing |-> s] : s \in CompanyListings(top_k * 2)}
    ELSE {[raises |-> FALSE, listing |-> <<>>]}

\* Whether listing the filings raises, when the filing sub-search runs.
ListingOutcomes(data_types_arg) ==
  IF data_types_arg.kind = "bad" THEN {FALSE} ELSE BOOLEAN

\* One call of search, with the provider's answers to it.
SearchCall ==
  \E query \in Queries, data_types_arg \in DataTypesInputs, top_k \in 1..MaxTopK,
     date_range_days \in DateRangeInputs :
    \E found \in FoundOutcomes(data_types_arg, top_k),
       listing_raises \in ListingOutcomes(data_types_arg) :
      Search(query, data_types_arg, top_k, date_range_days, found, Target[query],
             listing_raises)

(***************************************************************************)
(* fetch                                                                   *)
(***************************************************************************)
ContentLimit == 50000

\* len(filing.text()) for each filing.
BodyLength(accession_number) ==
  IF accession_number = <<"2", "-", "1">> THEN 60000
  ELSE IF accession_number = <<"1", "-", "2">> THEN 50000
  ELSE 100

\* Faulty variant of Content: a body of exactly ContentLimit characters is cut too.
ContentCutAtLimit(filing) ==
  LET n == BodyLength(filing.accession_number) IN
    IF n >= ContentLimit
      THEN [kind |-> "body", of |-> filing.accession_number, chars |-> ContentLimit,
            marker |-> TRUE]
      ELSE [kind |-> "body", of |-> filing.accession_number, chars |-> n, marker |-> FALSE]

\* content[:50000] + marker when len(content) > 50000: the text is given by
\* the filing it is the body of, how many of its characters are kept, and
\* whether the marker follows.
Content(filing) ==
  LET n == BodyLength(filing.accession_number) IN
    IF n > ContentLimit
      THEN [kind |-> "body", of |-> filing.accession_number, chars |-> ContentLimit,
            marker |-> TRUE]
      ELSE [kind |-> "body", of |-> filing.accession_number, chars |-> n, marker |-> FALSE]

ContentNotAvailable == [kind |-> "Content not available"]

NotInCache == "Object ID not found in cache. Please search again."

CompanyRecordResult(obj_id, company) ==
  [object_id |-> obj_id,
   type |-> "company",
   cik |-> company.cik,
   name |-> company.name,
   tickers |-> TickersOrEmpty(company),
   sic |-> None,
   sic_description |-> None,
   exchange |-> None,
   state |-> None,
   fiscal_year_end |-> None,
   business_address |-> None,
   mailing_address |-> None,
   former_names |-> <<>>,
   description |-> <<"Full company information for ", company.name>>]

FilingRecordResult(obj_id, filing) ==
  [object_id |-> obj_id,
   type |-> "filing",
   accession_number |-> filing.accession_number,
   cik |-> filing.cik,
   company |-> filing.company,
   form_type |-> filing.form,
   filing_date |-> DateText(filing.filing_date),
   period_of_report |-> None,
   file_number |-> None,
   acceptance_datetime |-> None,
   documents |-> <<>>,
   primary_document |-> None,
   sec_url |-> <<"https://www.sec.gov/Archives/edgar/data/", filing.cik, "/",
                 StripDashes(filing.accession_number), "/", filing.accession_number,
                 "-index.htm">>]

\* for f in company.get_filings(): if f.accession_number.replace("-", "") ==
\* accession.replace("-", ""): the first such filing, None when there is none.
FindFiling(filings, accession) ==
  LET hits == {i \in 1..Len(filings) :
                 StripDashes(filings[i].accession_number) = StripDashes(accession)}
  IN IF hits = {} THEN None
     ELSE Some(filings[CHOOSE i \in hits : \A j \in hits : i <= j])

\* What the provider answers while one token is fetched: get_company raises
\* (ver = 0) or returns version ver of the company's record; gone: the
\* registered filing has left the company's listing; text_raises: text()
\* raises.
ProviderAnswers == [ver : 0..2, gone : BOOLEAN, text_raises : BOOLEAN]

\* Faulty variant of ProvidedCompany: the record as searches listed it.
ProvidedCompanyAsListed(cik, answer) == CompanyVersions(cik)[1]

\* client.get_company(cik) at fetch time, when it does not raise.
ProvidedCompany(cik, answer) ==
  LET versions == CompanyVersions(cik) IN
    IF answer.ver <= Len(versions) THEN versions[answer.ver] ELSE versions[Len(versions)]

\* Faulty variant of CurrentFilings: the listing as it was at search time.
CurrentFilingsAsListed(cik, accession, answer) == CompanyFilings(cik)

\* company.get_filings() at fetch time.
CurrentFilings(cik, accession, answer) ==
  IF answer.gone
    THEN SelectSeq(CompanyFilings(cik), LAMBDA f : f.accession_number # accession)
    ELSE CompanyFilings(cik)

Failed(obj_id, message, calls) ==
  [ok |-> FALSE, entry |-> [object_id |-> obj_id, error |-> message], calls |-> calls]

Fetched(result, calls) == [ok |-> TRUE, entry |-> result, calls |-> calls]

\* Faulty variant of WithContent: a text that could not be read is left out.
WithContentIfRead(result, content) ==
  IF content = ContentNotAvailable THEN result
  ELSE [c \in DOMAIN result \cup {"content"} |-> IF c = "content" THEN content ELSE result[c]]

WithContent(result, content) ==
  [c \in DOMAIN result \cup {"content"} |-> IF c = "content" THEN content ELSE result[c]]

\* Faulty variant of FetchOne: a token the cache does not hold is looked up
\* at the provider, one the cache holds is answered from the cached summary.
FetchOneDecode(obj_id, include_content, answer) ==
  IF obj_id \in DOMAIN object_cache
    THEN Fetched(object_cache[obj_id].data, 0)
    ELSE Failed(obj_id, <<"Company not found: ", obj_id>>, 1)

\* One pass of the loop body (lines 222-310) for obj_id: the record appended
\* to results or the entry appended to errors, and the number of provider
\* calls made.
FetchOne(obj_id, include_content, answer) ==
  IF obj_id \in DOMAIN object_cache
    THEN LET cached == object_cache[obj_id] IN
      IF cached.type = "company"
        THEN IF answer.ver = 0
          THEN Failed(obj_id, <<"Company not found: ", cached.cik>>, 1)
          ELSE Fetched(CompanyRecordResult(obj_id, ProvidedCompany(cached.cik, answer)), 1)
      ELSE IF cached.type = "filing"
        THEN IF answer.ver = 0
          THEN Failed(obj_id, <<"Company not found: ", cached.cik>>, 1)
          ELSE LET filing == FindFiling(
                               CurrentFilings(cached.cik, cached.accession_number, answer),
                               cached.accession_number)
               IN
            IF filing = None
              THEN Failed(obj_id, <<"Filing ", cached.accession_number, " not found">>, 2)
            ELSE LET result == FilingRecordResult(obj_id, filing[1]) IN
              IF include_content
                THEN Fetched(WithContent(result, IF answer.text_raises
                                                   THEN ContentNotAvailable
                                                   ELSE Content(filing[1])), 3)
                ELSE Fetched(result, 2)
      ELSE Fetched(cached.data, 0)
    ELSE Failed(obj_id, NotInCache, 0)

\* Faulty variant of FetchLoop: the first failure ends the loop.
FetchLoopAborting(object_ids, include_content, answers) ==
  LET outcomes == [i \in 1..Len(object_ids) |->
                     FetchOne(object_ids[i], include_content, answers[i])]
      bad == {i \in 1..Len(object_ids) : ~outcomes[i].ok}
      last == IF bad = {} THEN Len(object_ids)
              ELSE CHOOSE i \in bad : \A j \in bad : i <= j
  IN [i \in 1..last |-> outcomes[i]]

\* The outcomes of the loop over object_ids, in order.
FetchLoop(object_ids, include_content, answers) ==
  [i \in 1..Len(object_ids) |-> FetchOne(object_ids[i], include_content, answers[i])]

\* Faulty variant of Entries: the entries are collected last first.
EntriesReversed(outcomes, ok) ==
  LET picked == SelectSeq(outcomes, LAMBDA o : o.ok = ok) IN
    [i \in 1..Len(picked) |-> picked[Len(picked) + 1 - i].entry]

Entries(outcomes, ok) ==
  LET picked == SelectSeq(outcomes, LAMBDA o : o.ok = ok) IN
    [i \in 1..Len(picked) |-> picked[i].entry]

\* Faulty variant of FetchResponse: errors is always the list.
FetchResponseErrorList(results, errors) ==
  [op |-> "fetch",
   success |-> results # <<>>,
   results |-> results,
   errors |-> Some(errors),
   fetched |-> Len(results),
   failed |-> Len(errors)]

FetchResponse(results, errors) ==
  [op |-> "fetch",
   success |-> results # <<>>,
   results |-> results,
   errors |-> IF errors # <<>> THEN Some(errors) ELSE None,
   fetched |-> Len(results),
   failed |-> Len(errors)]

FetchFailure(object_ids_arg) ==
  [op |-> "fetch", success |-> FALSE, error |-> "Fetch failed",
   object_ids |-> object_ids_arg]

Fetch(object_ids_arg, include_content, answers) ==
  IF object_ids_arg.kind = "bad"
    THEN /\ response' = FetchFailure(object_ids_arg)
         /\ call' = [op |-> "fetch", completed |-> FALSE, object_ids |-> <<>>,
                     include_content |-> include_content, answers |-> <<>>,
                     outcomes |-> <<>>, object_ids_arg |-> object_ids_arg]
    ELSE
      LET object_ids == IF object_ids_arg.kind = "str" THEN <<object_ids_arg.id>>
                        ELSE object_ids_arg.ids
          outcomes == FetchLoop(object_ids, include_content, answers)
      IN /\ response' = FetchResponse(Entries(outcomes, TRUE), Entries(outcomes, FALSE))
         /\ call' = [op |-> "fetch", completed |-> TRUE, object_ids |-> object_ids,
                     include_content |-> include_content, answers |-> answers,
                     outcomes |-> outcomes, object_ids_arg |-> object_ids_arg]

\* Every token search can produce, and one it cannot.
EntityTokens ==
  {GenerateObjectId(TypeChars("company"), cik) : cik \in CIKs}
    \cup {GenerateObjectId(TypeChars("filing"), a) : a \in Accessions}
UnknownToken == CHOOSE t \in 0..(TokenSpace - 1) : t \notin EntityTokens
FetchTokens ==
  {GenerateObjectId(TypeChars("company"), CIK1),
   GenerateObjectId(TypeChars("filing"), <<"2", "-", "1">>),
   UnknownToken}

\* object_ids: one token as a string, a list of tokens, or a value that
\* cannot be iterated.
ObjectIdsInputs ==
  {[kind |-> "bad"]}
    \cup {[kind |-> "str", id |-> t] : t \in FetchTokens}
    \cup {[kind |-> "list", ids |-> ids] :
            ids \in UNION {[1..n -> FetchTokens] : n \in 0..MaxBatch}}

\* The answers that the fetch of obj_id reads: a token not in the cache
\* reaches no provider call, a company token reads the company record, a
\* filing token the lookup, the listing and, with include_content, the text.
RelevantAnswers(obj_id, include_content) ==
  IF obj_id \notin DOMAIN object_cache
    THEN {[ver |-> 1, gone |-> FALSE, text_raises |-> FALSE]}
  ELSE IF object_cache[obj_id].type = "company"
    THEN {[ver |-> v, gone |-> FALSE, text_raises |-> FALSE] : v \in 0..2}
  ELSE {[ver |-> 0, gone |-> FALSE, text_raises |-> FALSE],
        [ver |-> 1, gone |-> TRUE, text_raises |-> FALSE],
        [ver |-> 1, gone |-> FALSE, text_raises |-> FALSE]}
       \cup (IF include_content
               THEN {[ver |-> 1, gone |-> FALSE, text_raises |-> TRUE]} ELSE {})

RECURSIVE AnswerSeqs(_, _)
AnswerSeqs(object_ids, include_content) ==
  IF object_ids = <<>> THEN {<<>>}
  ELSE {<<a>> \o rest : a \in RelevantAnswers(Head(object_ids), include_content),
                        rest \in AnswerSeqs(Tail(object_ids), include_content)}

InputIds(object_ids_arg) ==
  IF object_ids_arg.kind = "list" THEN object_ids_arg.ids
  ELSE IF object_ids_arg.kind = "str" THEN <<object_ids_arg.id>> ELSE <<>>

\* Faulty variant of FetchCall: a token that could not be fetched is dropped
\* from the cache.
FetchCallEvicting ==
  \E object_ids_arg \in ObjectIdsInputs, include_content \in BOOLEAN :
    \E answers \in AnswerSeqs(InputIds(object_ids_arg), include_content) :
      /\ Fetch(object_ids_arg, include_content, answers)
      /\ LET failed == {call'.object_ids[i] : i \in {j \in 1..Len(call'.object_ids) :
                                                      ~call'.outcomes[j].ok}}
         IN object_cache' = [t \in DOMAIN object_cache \ failed |-> object_cache[t]]
      /\ UNCHANGED seen

FetchCall ==
  \E object_ids_arg \in ObjectIdsInputs, include_content \in BOOLEAN :
    \E answers \in AnswerSeqs(InputIds(object_ids_arg), include_content) :
      /\ Fetch(object_ids_arg, include_content, answers)
      /\ UNCHANGED <<object_cache, seen>>

Next == SearchCall \/ FetchCall

Spec == Init /\ [][Next]_vars

(***************************************************************************)
(* Scores as the doubles Python computes.  matches / max(len, 1) is the    *)
(* double nearest to the quotient and relevance += 0.5 the double nearest  *)
(* to the sum, ties to even.  A double is [zero, sig, exp]: zero, or the   *)
(* number whose binary digits are sig (MantissaBits of them, the first 1)  *)
(* with the first digit worth 2^exp.  An exact binary number is            *)
(* [zero, bits, exp] with any number of digits.                            *)
(***************************************************************************)
MantissaBits == 53

Zeros(n) == [i \in 1..n |-> 0]

ZeroNumber == [zero |-> TRUE, bits |-> <<>>, exp |-> 0]

\* The digits of r / n after the point, count of them, then a digit that is
\* 1 when digits other than 0 follow.
RECURSIVE QuotientBits(_, _, _)
QuotientBits(r, n, count) ==
  IF count = 0 THEN <<IF r = 0 THEN 0 ELSE 1>>
  ELSE IF 2 * r >= n
    THEN <<1>> \o QuotientBits(2 * r - n, n, count - 1)
    ELSE <<0>> \o QuotientBits(2 * r, n, count - 1)

\* How often m is doubled to reach n, for 0 < m <= n.
RECURSIVE Doublings(_, _)
Doublings(m, n) == IF m >= n THEN 0 ELSE 1 + Doublings(2 * m, n)

\* m / n for 0 <= m <= n, 0 < n, to MantissaBits + 2 digits.
Quotient(m, n) ==
  IF m = 0 THEN ZeroNumber
  ELSE LET k == Doublings(m, n)
           a == m * (2 ^ k)
       IN [zero |-> FALSE,
           bits |-> <<1>> \o QuotientBits(a - n, n, MantissaBits + 1),
           exp |-> -k]

\* bits + 1 as a binary number; one digit longer when every digit was 1.
RECURSIVE Increment(_)
Increment(bits) ==
  IF bits = <<>> THEN <<1>>
  ELSE IF bits[Len(bits)] = 0
    THEN SubSeq(bits, 1, Len(bits) - 1) \o <<1>>
    ELSE Increment(SubSeq(bits, 1, Len(bits) - 1)) \o <<0>>

\* The double nearest to an exact number, ties to the even significand.
RoundToDouble(number) ==
  IF number.zero THEN [zero |-> TRUE, sig |-> <<>>, exp |-> 0]
  ELSE IF Len(number.bits) <= MantissaBits
    THEN [zero |-> FALSE,
          sig |-> number.bits \o Zeros(MantissaBits - Len(number.bits)),
          exp |-> number.exp]
  ELSE LET kept == SubSeq(number.bits, 1, MantissaBits)
           half == number.bits[MantissaBits + 1] = 1
           more == \E i \in (MantissaBits + 2)..Len(number.bits) : number.bits[i] = 1
           up == half /\ (more \/ kept[MantissaBits] = 1)
           next == Increment(kept)
       IN IF ~up THEN [zero |-> FALSE, sig |-> kept, exp |-> number.exp]
          ELSE IF Len(next) = MantissaBits
            THEN [zero |-> FALSE, sig |-> next, exp |-> number.exp]
            ELSE [zero |-> FALSE, sig |-> SubSeq(next, 1, MantissaBits),
                  exp |-> number.exp + 1]

\* matches / max(len(query_terms), 1)
Divide(m, n) == RoundToDouble(Quotient(m, n))

\* The exact value of x + 0.5 for a double 0 <= x < 2.
ExactPlusHalf(x) ==
  IF x.zero THEN [zero |-> FALSE, bits |-> <<1>>, exp |-> -1]
  ELSE IF x.exp <= -2
    THEN [zero |-> FALSE, bits |-> <<1>> \o Zeros(-x.exp - 2) \o x.sig, exp |-> -1]
  ELSE IF x.exp = -1
    THEN [zero |-> FALSE, bits |-> <<1, 0>> \o Tail(x.sig), exp |-> 0]
  ELSE IF x.sig[2] = 0
    THEN [zero |-> FALSE, bits |-> <<1, 1>> \o SubSeq(x.sig, 3, Len(x.sig)), exp |-> 0]
    ELSE [zero |-> FALSE, bits |-> <<1, 0, 0>> \o SubSeq(x.sig, 3, Len(x.sig)), exp |-> 1]

\* relevance += 0.5
AddHalf(x) == RoundToDouble(ExactPlusHalf(x))

\* The double of an exact quotient num/den with 0 <= num <= den.
Double(score) == Divide(score.num, score.den)

\* Lines 77-78: a company's score.
CompanyScoreDouble(query, company) ==
  Double(ScoreRelevance(query, CompanySearchText(company)))

\* Lines 138-144: a filing's score before and after the boost.
FilingBaseDouble(query, filing) ==
  Double(ScoreRelevance(query, FilingSearchText(filing)))

FilingScoreDouble(query, filing) ==
  LET relevance == FilingBaseDouble(query, filing) IN
    IF Contains(Lower(query), Lower(filing.form)) THEN AddHalf(relevance) ELSE relevance

(***************************************************************************)
(* The scoring of one candidate for one query, for queries of up to        *)
(* MaxTerms terms.                                                         *)
(***************************************************************************)
MaxTerms == 3

ScoreTerms ==
  { <<"a", "b">>, <<"1", "0", "-", "K">>, <<"z", "z">>,
    <<"x", "1", "0", "-", "q", "x">> }

ScoreQueries ==
  {Join(terms) : terms \in UNION {[1..n -> ScoreTerms] : n \in 0..MaxTerms}}

ScoreCompany ==
  \E query \in ScoreQueries, company \in CompanyRecords :
    /\ call' = [op |-> "score", type |-> "company", query |-> query,
                text |-> CompanySearchText(company), form |-> None]
    /\ response' = [op |-> "score",
                    base |-> CompanyScoreDouble(query, company),
                    relevance_score |-> CompanyScoreDouble(query, company)]
    /\ UNCHANGED <<object_cache, seen>>

ScoreFiling ==
  \E query \in ScoreQueries, n \in 1..Len(AllFilings) :
    /\ call' = [op |-> "score", type |-> "filing", query |-> query,
                text |-> FilingSearchText(AllFilings[n]),
                form |-> Some(AllFilings[n].form)]
    /\ response' = [op |-> "score",
                    base |-> FilingBaseDouble(query, AllFilings[n]),
                    relevance_score |-> FilingScoreDouble(query, AllFilings[n])]
    /\ UNCHANGED <<object_cache, seen>>

ScoreNext == ScoreCompany \/ ScoreFiling

ScoreSpec == Init /\ [][ScoreNext]_vars

(***************************************************************************)
(* The accession match of fetch (lines 257-261) on its own: a registered   *)
(* accession number and a current listing, each number written with        *)
(* dashes, without separator, or with dots.                                *)
(***************************************************************************)
MaxListing == 2

AccessionParts == {<<"1", "1">>, <<"1", "2">>, <<"2", "1">>}
Separators == {<<"-">>, <<>>, <<".">>}

Formatted(parts, separator) == <<parts[1]>> \o separator \o <<parts[2]>>

AccessionForms == {Formatted(parts, sep) : parts \in AccessionParts, sep \in Separators}

MatchListings ==
  UNION {[1..n -> [accession_number : AccessionForms]] : n \in 0..MaxListing}

MatchFiling ==
  \E accession \in AccessionForms, filings \in MatchListings :
    /\ call' = [op |-> "match", accession |-> accession, filings |-> filings]
    /\ response' = [op |-> "match", filing |-> FindFiling(filings, accession)]
    /\ UNCHANGED <<object_cache, seen>>

MatchNext == MatchFiling

MatchSpec == Init /\ [][MatchNext]_vars

(***************************************************************************)
(* Properties.                                                             *)
(***************************************************************************)
Searched == call.op = "search"
Completed == call.op = "fetch" /\ call.completed

\* The errors list of a fetch response, empty when errors is None.
ErrorsOf(resp) == IF resp.errors = None THEN <<>> ELSE resp.errors[1]

\* Whether the token at position i of the batch cannot be fetched: the cache
\* does not hold it, the provider's company lookup raises, or the filing it
\* names has left the company's listing.
ShouldFail(i) ==
  LET obj_id == call.object_ids[i]
      answer == call.answers[i]
  IN \/ obj_id \notin DOMAIN object_cache
     \/ answer.ver = 0
     \/ object_cache[obj_id].type = "filing" /\ answer.gone

Positions(obj_id, failing) ==
  {i \in 1..Len(call.object_ids) : call.object_ids[i] = obj_id /\ ShouldFail(i) = failing}

CountFor(entries, obj_id) ==
  Cardinality({j \in 1..Len(entries) : entries[j].object_id = obj_id})

\* C1: partial-batch isolation.  After every fetch that runs its loop, each
\* token of the batch is accounted for exactly once: fetched + failed is the
\* number of input tokens, results holds one record for each position that
\* can be fetched and errors one entry for each position that cannot, token
\* by token, so a failure on one token takes no other token with it.
PartialBatchIsolation ==
  Completed =>
    /\ response.fetched + response.failed = Len(call.object_ids)
    /\ response.fetched = Len(response.results)
    /\ response.failed = Len(ErrorsOf(response))
    /\ \A i \in 1..Len(call.object_ids) :
         LET obj_id == call.object_ids[i] IN
           /\ CountFor(response.results, obj_id) = Cardinality(Positions(obj_id, FALSE))
           /\ CountFor(ErrorsOf(response), obj_id) = Cardinality(Positions(obj_id, TRUE))

\* A batch of two tokens whose first fails on a provider exception and whose
\* second is fetched.
PartialBatchIsolationWitness ==
  /\ Completed
  /\ Len(call.object_ids) = 2
  /\ call.object_ids[1] \in DOMAIN object_cache
  /\ call.answers[1].ver = 0
  /\ ~ShouldFail(2)
  /\ response.fetched = 1
  /\ response.failed = 1
  /\ response.results[1].object_id = call.object_ids[2]

\* C2: search-then-fetch resolvability.  Every candidate a search kept, in
\* the returned results or cut off by top_k, is in the cache under its
\* object_id with its own summary or a later candidate's; every token a
\* search ever handed out is still in the cache, whatever calls followed; and
\* a fetch never reports a cache miss for such a token.
SearchThenFetchResolvable ==
  /\ \A s \in seen : s.object_id \in DOMAIN object_cache
  /\ Searched =>
       \A i \in 1..Len(call.all_results) :
         /\ call.all_results[i].object_id \in DOMAIN object_cache
         /\ [key |-> EntityKey(call.all_results[i]),
             object_id |-> call.all_results[i].object_id] \in seen
  /\ (Searched /\ response.success) =>
       \A i \in 1..Len(response.results) :
         response.results[i].object_id \in DOMAIN object_cache
  /\ Completed =>
       \A i \in 1..Len(call.object_ids) :
         (\E s \in seen : s.object_id = call.object_ids[i]) =>
           \A j \in 1..Len(ErrorsOf(response)) :
             ErrorsOf(response)[j].object_id = call.object_ids[i] =>
               ErrorsOf(response)[j].error # NotInCache

\* A search cut a candidate off by top_k, and the cache holds it under its
\* object_id, beside a token that an earlier search registered.
SearchThenFetchResolvableWitness ==
  /\ Searched
  /\ response.success
  /\ response.total_found > response.returned
  /\ \E i \in 1..Len(call.all_results) :
       /\ \A j \in 1..Len(response.results) : response.results[j] # call.all_results[i]
       /\ object_cache[call.all_results[i].object_id].data = call.all_results[i]
  /\ \E s \in seen : \A i \in 1..Len(call.all_results) :
       s.object_id # call.all_results[i].object_id

FetchResponseSummary ==
  Completed =>
    /\ response.success = (response.results # <<>>)
    /\ response.success = (\E i \in 1..Len(call.object_ids) : ~ShouldFail(i))
    /\ (response.errors = None) = (\A i \in 1..Len(call.object_ids) : ~ShouldFail(i))
    /\ response.errors # None => response.errors[1] # <<>>
    /\ response.errors # Some(<<>>)

\* An empty batch: success is false and errors is None.
FetchResponseSummaryWitness ==
  /\ Completed
  /\ call.object_ids = <<>>
  /\ response.success = FALSE
  /\ response.errors = None
  /\ DOMAIN object_cache # {}

\* C4: token determinism.  The object_id of an entity is fixed by its
\* (entity type, natural key) pair: no search, whatever its query, the cache
\* contents or the calls before it, ever gives an entity a second token; a
\* cache entry sits under the token its summary carries, and no two entries
\* of the cache are for the same entity.
TokenDeterminism ==
  /\ \A a, b \in seen : a.key = b.key => a.object_id = b.object_id
  /\ \A t \in DOMAIN object_cache :
       /\ object_cache[t].data.object_id = t
       /\ EntityKey(object_cache[t]) = EntityKey(object_cache[t].data)
       /\ [key |-> EntityKey(object_cache[t]), object_id |-> t] \in seen
  /\ \A t, u \in DOMAIN object_cache :
       EntityKey(object_cache[t]) = EntityKey(object_cache[u]) => t = u

\* A search met a company whose token the cache already held, and the cache
\* holds the company under that token with this search's summary.
TokenDeterminismWitness ==
  /\ Searched
  /\ call.repeated
  /\ \E i \in 1..Len(call.all_results) :
       /\ call.all_results[i].type = "company"
       /\ object_cache[call.all_results[i].object_id].data = call.all_results[i]

LeastOf(a, b) == IF a <= b THEN a ELSE b

\* How many candidates come before candidate i after a stable sort by
\* descending score: those of higher score, and those of equal score found
\* earlier.
RankOf(results, i) ==
  Cardinality({j \in 1..Len(results) :
                 \/ ScoreLess(results[i].relevance_score, results[j].relevance_score)
                 \/ /\ results[j].relevance_score = results[i].relevance_score
                    /\ j < i})

PlaceOf(seq, x) == CHOOSE i \in 1..Len(seq) : seq[i] = x

ListedCiks(found) == [i \in 1..Len(found.listing) |-> found.listing[i].cik]
AccessionOrder == [i \in 1..Len(AllFilings) |-> AllFilings[i].accession_number]

\* Discovery order: companies before filings, companies as the provider
\* listed them, filings as the provider listed them.
DiscoveryOrder(results, found) ==
  \A i, j \in 1..Len(results) :
    i < j =>
      /\ ~(results[i].type = "filing" /\ results[j].type = "company")
      /\ (results[i].type = "company" /\ results[j].type = "company") =>
           PlaceOf(ListedCiks(found), results[i].cik)
             < PlaceOf(ListedCiks(found), results[j].cik)
      /\ (results[i].type = "filing" /\ results[j].type = "filing") =>
           PlaceOf(AccessionOrder, results[i].accession_number)
             < PlaceOf(AccessionOrder, results[j].accession_number)

\* C5: ranking and truncation.  The candidates are merged in discovery
\* order; the returned results are the top_k candidates of lowest rank in the
\* stable descending order by relevance_score, each at the place of its rank;
\* returned = min(top_k, total_found) and total_found counts every candidate
\* kept before truncation.
RankingAndTruncation ==
  (Searched /\ response.success) =>
    LET all_results == call.all_results
        top_k == call.args.top_k
    IN /\ DiscoveryOrder(all_results, call.found)
       /\ response.total_found = Len(all_results)
       /\ response.returned = LeastOf(top_k, response.total_found)
       /\ Len(response.results) = response.returned
       /\ \A i \in 1..Len(all_results) :
            RankOf(all_results, i) < top_k =>
              response.results[RankOf(all_results, i) + 1] = all_results[i]

\* Two candidates of equal score on either side of the cut, the earlier one
\* returned, behind a later-found candidate of higher score.
RankingAndTruncationWitness ==
  /\ Searched
  /\ response.success
  /\ response.total_found > response.returned
  /\ \E i, j \in 1..Len(call.all_results) :
       /\ i < j
       /\ call.all_results[i].relevance_score = call.all_results[j].relevance_score
       /\ RankOf(call.all_results, i) < call.args.top_k
       /\ RankOf(call.all_results, j) >= call.args.top_k
       /\ call.all_results[i].type = "company"
       /\ RankOf(call.all_results, i) > 0
  /\ response.results[1] # call.all_results[1]

\* C7: search never fails because of a sub-search.  Whenever the company
\* sub-search, the filing sub-search or both raise, the response has
\* success = True with results, total_found and returned; success = False
\* comes only from an exception outside the two sub-searches and then carries
\* the query of the call; every call ends in a response.
SearchNeverFailsOnSubSearch ==
  Searched =>
    /\ response.op = "search"
    /\ (call.company_raised \/ call.filing_raised) =>
         /\ response.success
         /\ {"results", "total_found", "returned"} \subseteq DOMAIN response
         /\ response.total_found = Len(call.all_results)
         /\ response.returned = Len(response.results)
    /\ ~response.success =>
         /\ call.args.data_types.kind = "bad"
         /\ ~call.company_raised
         /\ ~call.filing_raised
         /\ response.query = call.args.query
         /\ "error" \in DOMAIN response

\* Both sub-searches raised and the search reports success with nothing found.
SearchNeverFailsOnSubSearchWitness ==
  /\ Searched
  /\ call.company_raised
  /\ call.filing_raised
  /\ response.success
  /\ response.total_found = 0
  /\ response.results = <<>>

OfType(results, type) == {i \in 1..Len(results) : results[i].type = type}

\* C8: a failed sub-search contributes nothing.  When the sub-search for one
\* entity type raises, at the provider call or while its candidates are
\* processed, the candidates kept by the search, which total_found counts,
\* and the returned results hold no candidate of that type.
FailedSubSearchContributesNothing ==
  (Searched /\ response.success) =>
    /\ call.company_raised =>
         /\ OfType(call.all_results, "company") = {}
         /\ OfType(response.results, "company") = {}
    /\ call.filing_raised =>
         /\ OfType(call.all_results, "filing") = {}
         /\ OfType(response.results, "filing") = {}

FilingOf(accession_number) ==
  AllFilings[PlaceOf(AccessionOrder, accession_number)]

\* The filing's date is before now - date_range_days.
TooOld(accession_number, date_range_days) ==
  FilingOf(accession_number).filing_date.day < Now - date_range_days[1]

\* The companies of a listing up to the first one whose summary raises.
RECURSIVE ListedBeforeRaise(_)
ListedBeforeRaise(listing) ==
  IF listing = <<>> \/ TickerRaises(Head(listing)) THEN <<>>
  ELSE <<Head(listing).cik>> \o ListedBeforeRaise(Tail(listing))

CompanyCiks(results) ==
  LET companies == SelectSeq(results, LAMBDA r : r.type = "company") IN
    [i \in 1..Len(companies) |-> companies[i].cik]

\* C9: recency filter.  A search called with a positive date_range_days
\* keeps and returns no filing dated before now - date_range_days, whatever
\* its score, and writes no cache entry for such a filing (an entry the cache
\* holds for it afterwards is the one it held before); the companies kept are
\* those the provider listed, none dropped for the filter.
RecencyFilter ==
  [][(call'.op = "search" /\ call'.args.data_types.kind # "bad"
        /\ call'.args.date_range_days # None /\ call'.args.date_range_days[1] > 0) =>
       LET days == call'.args.date_range_days IN
         /\ \A i \in OfType(call'.all_results, "filing") :
              ~TooOld(call'.all_results[i].accession_number, days)
         /\ \A i \in OfType(response'.results, "filing") :
              ~TooOld(response'.results[i].accession_number, days)
         /\ \A t \in DOMAIN object_cache' :
              (object_cache'[t].type = "filing"
                 /\ TooOld(object_cache'[t].accession_number, days)) =>
                (t \in DOMAIN object_cache /\ object_cache[t] = object_cache'[t])
         /\ InList("companies", response'.data_types_searched) =>
              CompanyCiks(call'.all_results) = ListedBeforeRaise(call'.found.listing)
    ]_vars

\* A filtered search over filings that kept the one dated at the cutoff and
\* dropped an older one that matches the query, beside a company.
RecencyFilterWitness ==
  /\ Searched
  /\ response.success
  /\ DateFilterOn(call.args.date_range_days)
  /\ OfType(call.all_results, "company") # {}
  /\ \E i \in OfType(call.all_results, "filing") :
       FilingOf(call.all_results[i].accession_number).filing_date.day
         = Now - call.args.date_range_days[1]
  /\ \E n \in 1..Len(AllFilings) :
       /\ TooOld(AllFilings[n].accession_number, call.args.date_range_days)
       /\ ScoreLess(Fraction(0, 1), FilingScore(call.args.query, AllFilings[n]))
       /\ \A i \in OfType(call.all_results, "filing") :
            call.all_results[i].accession_number # AllFilings[n].accession_number

SeenKeys == {s.key : s \in seen}

\* C10: idempotent registry growth.  The cache never holds more entries than
\* there are distinct (entity type, natural key) pairs among the candidates
\* searches have kept, and a search whose candidates were all kept before
\* leaves the set of tokens of the cache as it was.
IdempotentRegistryGrowth ==
  /\ [](Cardinality(DOMAIN object_cache) <= Cardinality(SeenKeys))
  /\ [][(call'.op = "search" /\ KeysOf(call'.all_results) \subseteq SeenKeys) =>
          DOMAIN object_cache' = DOMAIN object_cache]_vars

\* A search kept a company and filings, all kept by earlier searches, and
\* added no token.
IdempotentRegistryGrowthWitness ==
  /\ Searched
  /\ call.repeated
  /\ OfType(call.all_results, "company") # {}
  /\ Cardinality(OfType(call.all_results, "filing")) >= 2
  /\ Cardinality(DOMAIN object_cache) = Cardinality(SeenKeys)

HasContent(result) == "content" \in DOMAIN result

\* C11: content truncation.  A filing fetched with include_content whose
\* body has more than 50,000 characters carries the first 50,000 characters
\* of that body followed by the marker; a body of at most 50,000 characters
\* is carried whole without marker; a company record, and any record fetched
\* without include_content, carries no content.
ContentTruncation ==
  Completed =>
    \A j \in 1..Len(response.results) :
      LET result == response.results[j] IN
        /\ HasContent(result) = (result.type = "filing" /\ call.include_content)
        /\ (HasContent(result) /\ result.content # ContentNotAvailable) =>
             LET n == BodyLength(result.accession_number) IN
               /\ result.content.kind = "body"
               /\ result.content.of = result.accession_number
               /\ n > 50000 => (result.content.chars = 50000 /\ result.content.marker)
               /\ n <= 50000 => (result.content.chars = n /\ ~result.content.marker)

\* A batch fetched with include_content returned a company without content
\* and a filing of 60,000 characters cut to 50,000 with the marker.
ContentTruncationWitness ==
  /\ Completed
  /\ call.include_content
  /\ \E j \in 1..Len(response.results) :
       /\ response.results[j].type = "filing"
       /\ BodyLength(response.results[j].accession_number) = 60000
       /\ response.results[j].content # ContentNotAvailable
       /\ response.results[j].content.chars = 50000
       /\ response.results[j].content.marker
  /\ \E j \in 1..Len(response.results) : response.results[j].type = "company"

\* The provider's record of a company when answer was given.
CompanyAt(cik, answer) ==
  CompanyVersions(cik)[LeastOf(answer.ver, Len(CompanyVersions(cik)))]

\* C12: registry as router.  Every record fetch returns carries the
\* provider's values at fetch time: a company's cik, name and tickers are
\* those of the record the provider then holds, a filing's fields those of
\* the filing in the company's current listing; a company renamed since the
\* search is returned under its new name, not under the title of the cached
\* summary, and no returned record is the cached summary.
RegistryAsRouter ==
  Completed =>
    \A i \in 1..Len(call.object_ids) :
      call.outcomes[i].ok =>
        LET cached == object_cache[call.object_ids[i]]
            result == call.outcomes[i].entry
        IN /\ result # cached.data
           /\ result.object_id = call.object_ids[i]
           /\ result.type = cached.type
           /\ cached.type = "company" =>
                LET company == CompanyAt(cached.cik, call.answers[i]) IN
                  /\ result.cik = company.cik
                  /\ result.name = company.name
                  /\ result.tickers = (IF company.tickers = None THEN <<>>
                                       ELSE company.tickers[1])
           /\ cached.type = "filing" =>
                LET filing == FilingOf(cached.accession_number) IN
                  /\ result.accession_number = filing.accession_number
                  /\ result.cik = filing.cik
                  /\ result.company = filing.company
                  /\ result.form_type = filing.form
                  /\ result.filing_date.iso = filing.filing_date.day

\* A company renamed after the search that registered it was fetched: the
\* record has the new name and no tickers, the cached summary the old title.
RegistryAsRouterWitness ==
  /\ Completed
  /\ \E i \in 1..Len(call.object_ids) :
       /\ call.outcomes[i].ok
       /\ call.outcomes[i].entry.type = "company"
       /\ call.outcomes[i].entry.name # object_cache[call.object_ids[i]].data.title
       /\ call.outcomes[i].entry.tickers = <<>>
       /\ object_cache[call.object_ids[i]].data.ticker # None
       /\ response.results[1] = call.outcomes[i].entry

Scored == call.op = "score"

\* The digits of a binary number without the zeros at its end.
RECURSIVE Trim(_)
Trim(bits) ==
  IF bits = <<>> \/ bits[Len(bits)] = 1 THEN bits
  ELSE Trim(SubSeq(bits, 1, Len(bits) - 1))

\* A double and an exact number are the same number.
SameNumber(x, number) ==
  /\ x.zero = number.zero
  /\ ~x.zero => (x.exp = number.exp /\ Trim(x.sig) = Trim(number.bits))

One == [zero |-> FALSE, sig |-> <<1>> \o Zeros(MantissaBits - 1), exp |-> 0]

\* The number of terms of the query that occur in the text.
TermsIn(query, text) ==
  Cardinality({i \in 1..Len(Split(Lower(query))) :
                 Contains(Lower(text), Split(Lower(query))[i])})

\* C13: relevance score and form-type boost.  The base score of a candidate
\* is the number of query terms that occur in its text divided by the number
\* of query terms, 0 for a query without terms, and lies in [0,1]; a company's
\* score is its base score; a filing's score is its base score plus exactly
\* 0.5 when its form type occurs in the query and its base score otherwise,
\* so that two filings of equal base score of which one is boosted differ by
\* exactly 0.5.
RelevanceAndBoost ==
  Scored =>
    LET terms == Len(Split(Lower(call.query)))
        boosted == call.type = "filing"
                     /\ Contains(Lower(call.query), Lower(call.form[1]))
    IN /\ terms = 0 => response.base.zero
       /\ terms > 0 => response.base = Divide(TermsIn(call.query, call.text), terms)
       /\ response.base.zero \/ response.base.exp < 0 \/ response.base = One
       /\ ~boosted => response.relevance_score = response.base
       /\ boosted => SameNumber(response.relevance_score, ExactPlusHalf(response.base))

\* The token at position i of the batch is a registered filing.
FilingAt(i) ==
  /\ call.object_ids[i] \in DOMAIN object_cache
  /\ object_cache[call.object_ids[i]].type = "filing"

\* C14: staleness detection for filings.  When a registered filing has left
\* its company's current listing, or the company lookup fails, fetch returns
\* no record for that position, neither a fresh one nor the cached summary,
\* records an error entry with the token and a message that names what was
\* not found, and goes on with the rest of the batch.
StalenessDetection ==
  Completed =>
    /\ Len(call.outcomes) = Len(call.object_ids)
    /\ \A i \in 1..Len(call.object_ids) :
         (FilingAt(i) /\ (call.answers[i].gone \/ call.answers[i].ver = 0)) =>
           LET obj_id == call.object_ids[i]
               cached == object_cache[obj_id]
           IN /\ ~call.outcomes[i].ok
              /\ call.outcomes[i].entry.object_id = obj_id
              /\ call.outcomes[i].entry.error # NotInCache
              /\ call.answers[i].ver # 0 =>
                   call.outcomes[i].entry.error
                     = <<"Filing ", cached.accession_number, " not found">>
              /\ \E j \in 1..Len(ErrorsOf(response)) :
                   ErrorsOf(response)[j] = call.outcomes[i].entry
              /\ \A j \in 1..Len(response.results) : response.results[j] # cached.data
              /\ CountFor(response.results, obj_id) = Cardinality(Positions(obj_id, FALSE))
              /\ \A k \in (i + 1)..Len(call.object_ids) :
                   call.outcomes[k].ok = ~ShouldFail(k)

\* A batch whose first token is a filing that has left the listing and whose
\* second token is fetched.
StalenessDetectionWitness ==
  /\ Completed
  /\ Len(call.object_ids) = 2
  /\ FilingAt(1)
  /\ call.answers[1].gone
  /\ call.answers[1].ver # 0
  /\ call.outcomes[2].ok
  /\ response.fetched = 1
  /\ response.failed = 1

\* C15: a failure to read the text degrades the record.  When fetch with
\* include_content resolves a filing and text() raises, the filing's record
\* is returned with the placeholder as content, counted in fetched, and no
\* error entry is recorded for the position.
ContentFailureDegrades ==
  (Completed /\ call.include_content) =>
    /\ response.fetched
         = Cardinality({i \in 1..Len(call.object_ids) : ~ShouldFail(i)})
    /\ \A i \in 1..Len(call.object_ids) :
         (FilingAt(i) /\ ~ShouldFail(i) /\ call.answers[i].text_raises) =>
           LET obj_id == call.object_ids[i] IN
             /\ call.outcomes[i].ok
             /\ call.outcomes[i].entry.type = "filing"
             /\ call.outcomes[i].entry.accession_number
                  = object_cache[obj_id].accession_number
             /\ HasContent(call.outcomes[i].entry)
             /\ call.outcomes[i].entry.content = ContentNotAvailable
             /\ \E j \in 1..Len(response.results) :
                  response.results[j] = call.outcomes[i].entry
             /\ CountFor(ErrorsOf(response), obj_id) = Cardinality(Positions(obj_id, TRUE))

\* One filing fetched with include_content while text() raises: one record
\* with the placeholder, no error.
ContentFailureDegradesWitness ==
  /\ Completed
  /\ call.include_content
  /\ Len(call.object_ids) = 1
  /\ FilingAt(1)
  /\ call.answers[1].text_raises
  /\ response.success
  /\ response.fetched = 1
  /\ response.errors = None
  /\ response.results[1].content = ContentNotAvailable

\* C16: token collisions are never silently merged.  A token that a search
\* reported for an entity keeps routing to that entity: the cache entry
\* under it is that entity's, whatever was registered later, and a fetch of
\* the token returns a record of that entity.
CollisionsNeverMerged ==
  /\ \A s \in seen : EntityKey(object_cache[s.object_id]) = s.key
  /\ Completed =>
       \A i \in 1..Len(call.object_ids) :
         call.outcomes[i].ok =>
           \A s \in seen :
             s.object_id = call.object_ids[i] => EntityKey(call.outcomes[i].entry) = s.key

\* The filings that get_filings or the target company's get_filings listed
\* for the search with these arguments.
ListedFilings(args) ==
  IF Target[args.query] # None THEN CompanyFilings(Target[args.query][1])
  ELSE RecentFilings(args.top_k * 3)

\* The filings of a listing dated inside the window, up to limit of them.
InWindow(listing, days, limit) ==
  LET inside == SelectSeq(listing, LAMBDA f : f.filing_date.day >= Now - days[1]) IN
    IF Len(inside) <= limit THEN inside ELSE SubSeq(inside, 1, limit)

KeptAccessions(results) ==
  LET filings == SelectSeq(results, LAMBDA r : r.type = "filing") IN
    [i \in 1..Len(filings) |-> filings[i].accession_number]

\* C17: string filing dates in the recency filter.  In a search with
\* date_range_days set, a date that arrives as an ISO-8601 string, with or
\* without a trailing Z, is parsed and compared with the cutoff, and the
\* rest of the listing is processed: once the listing has been read (some
\* filing of it was kept), the filings kept are exactly the filings of the
\* listing dated inside the window, in order, up to 2 * top_k of them.
StringDatesInFilter ==
  (Searched /\ response.success /\ DateFilterOn(call.args.date_range_days)
     /\ OfType(call.all_results, "filing") # {}) =>
    LET expected == InWindow(ListedFilings(call.args), call.args.date_range_days,
                             call.args.top_k * 2)
    IN KeptAccessions(call.all_results)
         = [i \in 1..Len(expected) |-> expected[i].accession_number]

Alphanumeric(ch) == ch \notin {"-", ".", " ", ":", "/"}

\* An accession number without its separators.
AlphanumericOnly(accession) == SelectSeq(accession, Alphanumeric)

\* C18: accession matching in fetch.  The registered accession number and
\* those of the current listing are compared without their non-alphanumeric
\* separators: the filing returned is the first of the listing whose number
\* has the same letters and digits as the registered one, however either is
\* separated, and none is returned only when the listing has no such filing.
AccessionMatching ==
  call.op = "match" =>
    LET hits == {i \in 1..Len(call.filings) :
                   AlphanumericOnly(call.filings[i].accession_number)
                     = AlphanumericOnly(call.accession)}
    IN IF hits = {} THEN response.filing = None
       ELSE response.filing = Some(call.filings[CHOOSE i \in hits : \A j \in hits : i <= j])

\* The positions of the batch that can (failing FALSE) or cannot (failing
\* TRUE) be fetched, in input order.
PositionsInOrder(failing) ==
  SelectSeq([i \in 1..Len(call.object_ids) |-> i], LAMBDA i : ShouldFail(i) = failing)

\* C19: fetch preserves input order.  After every fetch that runs its loop,
\* results holds, in input order, one record for each position of the input
\* that could be fetched, and errors, in input order, one entry for each
\* position that could not, a repeated token giving one entry per
\* occurrence, each entry built from the provider's answer for its own
\* position; a single token given as a string is fetched as the one-element
\* sequence holding it.
FetchPreservesOrder ==
  Completed =>
    LET fetched == PositionsInOrder(FALSE)
        failed == PositionsInOrder(TRUE)
        errors == ErrorsOf(response)
    IN /\ Len(response.results) = Len(fetched)
       /\ \A j \in 1..Len(fetched) :
            /\ response.results[j].object_id = call.object_ids[fetched[j]]
            /\ response.results[j] = call.outcomes[fetched[j]].entry
       /\ Len(errors) = Len(failed)
       /\ \A j \in 1..Len(failed) :
            /\ errors[j].object_id = call.object_ids[failed[j]]
            /\ errors[j] = call.outcomes[failed[j]].entry
       /\ call.object_ids_arg.kind = "str" =>
            /\ call.object_ids = <<call.object_ids_arg.id>>
            /\ response.fetched + response.failed = 1
            /\ \A j \in 1..Len(response.results) :
                 response.results[j].object_id = call.object_ids_arg.id
            /\ \A j \in 1..Len(errors) : errors[j].object_id = call.object_ids_arg.id
       /\ call.object_ids_arg.kind = "list" => call.object_ids = call.object_ids_arg.ids

\* The same company token twice in one batch, the provider answering the
\* first occurrence with the company as listed and the second with its
\* renamed record: two records, in that order.
FetchPreservesOrderWitness ==
  /\ Completed
  /\ call.object_ids_arg.kind = "list"
  /\ Len(call.object_ids) = 2
  /\ call.object_ids[1] = call.object_ids[2]
  /\ call.answers[1].ver = 1
  /\ call.answers[2].ver = 2
  /\ Len(response.results) = 2
  /\ response.results[1].type = "company"
  /\ response.results[1] # response.results[2]

\* C20: fetch leaves the registry unchanged.  No step made by a fetch call,
\* whatever its tokens, its include_content flag, the provider's failures or
\* its outcome, changes the cache; every step that changes the cache is made
\* by a search.
FetchLeavesRegistryUnchanged ==
  [][/\ call'.op = "fetch" => object_cache' = object_cache
     /\ object_cache' # object_cache => call'.op = "search"]_vars

\* A fetch with include_content on a cache that holds entries, one token
\* fetched and one failed.
FetchLeavesRegistryUnchangedWitness ==
  /\ Completed
  /\ call.include_content
  /\ DOMAIN object_cache # {}
  /\ response.fetched = 1
  /\ response.failed = 1
  /\ \E i \in 1..Len(call.object_ids) :
       call.object_ids[i] \in DOMAIN object_cache /\ ShouldFail(i)

\* C21: registry well-formedness.  In every reachable state each cache entry
\* has type company or filing, is stored under the token derived from its
\* own type and natural key (the CIK of a company, the accession number of a
\* filing), a filing entry carries the CIK of the company that owns the
\* filing, and the summary cached in the entry is of the entry's type and
\* carries the entry's token as object_id; so every record a fetch returns
\* was built by the company or the filing branch from at least one provider
\* call, never taken from the cached summary by the unknown-type branch.
RegistryWellFormed ==
  /\ \A t \in DOMAIN object_cache :
       LET entry == object_cache[t] IN
         /\ entry.type \in {"company", "filing"}
         /\ entry.type = "company" =>
              /\ t = GenerateObjectId(TypeChars("company"), entry.cik)
              /\ entry.cik \in CIKs
         /\ entry.type = "filing" =>
              /\ t = GenerateObjectId(TypeChars("filing"), entry.accession_number)
              /\ entry.accession_number \in Accessions
              /\ entry.cik = FilingOf(entry.accession_number).cik
         /\ entry.data.object_id = t
         /\ entry.data.type = entry.type
  /\ Completed =>
       \A i \in 1..Len(call.object_ids) :
         call.outcomes[i].ok =>
           /\ call.outcomes[i].calls >= 1
           /\ call.outcomes[i].entry # object_cache[call.object_ids[i]].data
           /\ "relevance_score" \notin DOMAIN call.outcomes[i].entry

\* A cache holding a company entry and a filing entry, stored under a token
\* that two filings share, and a fetch that returned a record for each.
RegistryWellFormedWitness ==
  /\ Completed
  /\ \E t, u \in DOMAIN object_cache :
       /\ object_cache[t].type = "company"
       /\ object_cache[u].type = "filing"
       /\ \E s \in seen : s.object_id = u /\ s.key # EntityKey(object_cache[u])
       /\ call.object_ids = <<t, u>>
  /\ response.fetched = 2
  /\ response.results[1].type = "company"
  /\ response.results[2].type = "filing"

====
